---- MODULE Spec2Model ----
(***************************************************************************)
(* A model of the NoteTaker backend: the Category and Note tables          *)
(* (notes/models.py), the default-category signal (notes/signals.py), the  *)
(* serializers (notes/serializers.py) and the two REST view sets           *)
(* (notes/views.py).                                                        *)
(*                                                                          *)
(* Conventions.                                                             *)
(*  - A table is the set of its rows, a row is a record.                    *)
(*  - An optional request field is a sequence of length 0 (absent) or 1.    *)
(*  - A colour is the sequence of its characters, so that its length and    *)
(*    its first character are what the code sees.                           *)
(*  - A note title is the string 'a' * n (as the tests build it) and is     *)
(*    represented by n, its length.                                         *)
(*  - Time is a logical clock: every timezone.now() the ORM takes for an    *)
(*    auto_now / auto_now_add column reads a strictly later value.          *)
(*  - The state is the database. A request handler is a function of the     *)
(*    database and the request: XResponse gives the HTTP response (status,  *)
(*    body rows, fields in error) and the action X applies what the         *)
(*    handler writes. A request that is refused writes nothing.             *)
(***************************************************************************)
EXTENDS Integers, Sequences, FiniteSets, TLC

VARIABLES users, categories, notes, now, nextUserId, nextCategoryId,
          nextNoteId

vars == <<users, categories, notes, now, nextUserId, nextCategoryId,
          nextNoteId>>

(***************************************************************************)
(* Bounds and input sets                                                    *)
(***************************************************************************)
\* The number of accounts ever created. An account is its primary key,
\* which is never given out again.
MaxAccounts == 2

\* The number of rows saved (inserted or updated) through the endpoints.
MaxSaves == 2

\* Who may send a request: every account that can exist. A caller whose
\* account does not exist (any more) has no valid credentials.
Accounts == 1..MaxAccounts

\* SQL NULL in the nullable Note.category_id column; primary keys start at 1.
NULL == 0

HEX_EF9C66 == <<"#", "E", "F", "9", "C", "6", "6">>
HEX_FCDC94 == <<"#", "F", "C", "D", "C", "9", "4">>
HEX_C8CFA0 == <<"#", "C", "8", "C", "F", "A", "0">>
\* A colour of 9 characters, longer than the column allows.
HEX_TOO_LONG == <<"#", "F", "C", "D", "C", "9", "4", "F", "F">>

Opt(S) == {<<>>} \cup {<<x>> : x \in S}

\* Request bodies of the category endpoints: a complete body, with and
\* without a "user" key (which the serializer does not declare), a body whose
\* name is a default category's, a body with the name alone, a body whose
\* colour is too long, and the empty body.
CategoryPayloads ==
    {[name |-> <<"Work">>, color |-> <<HEX_FCDC94>>, user |-> w] :
        w \in Opt(1..MaxAccounts)}
    \cup {[name |-> <<"School">>, color |-> <<HEX_FCDC94>>, user |-> <<>>],
          [name |-> <<"Work">>,   color |-> <<>>,           user |-> <<>>],
          [name |-> <<"Work">>,   color |-> <<HEX_TOO_LONG>>, user |-> <<>>],
          [name |-> <<>>,         color |-> <<>>,           user |-> <<>>]}

\* The categories of account u that are among its k oldest.
Oldest(u, k) ==
    {c \in categories :
        /\ c.user = u
        /\ Cardinality({d \in categories :
                          d.user = u /\ d.created_at < c.created_at}) < k}

\* The category primary keys an update or delete request may name: the
\* oldest category of an account (as the tests pick it, with .first()), or
\* one that does not exist.
CategoryIds ==
    {c.id : c \in UNION {Oldest(u, 1) : u \in users}} \cup {nextCategoryId}

\* The category primary keys a note request may name, in its body or in its
\* query string: one of the two oldest categories of an account, or one that
\* does not exist.
CategoryRefs ==
    {c.id : c \in UNION {Oldest(u, 2) : u \in users}} \cup {nextCategoryId}

\* The note primary keys a request may name: those that exist and one that
\* does not.
NoteIds == {n.id : n \in notes} \cup {nextNoteId}

\* Request bodies of the note endpoints, after the ones the tests send: the
\* empty body, a title of 255 characters with a content, the same with a
\* category key, a category key alone (null or a primary key), and a title
\* of 256 characters.
NotePayloads ==
    {[title |-> <<>>,    content |-> <<>>,               category |-> <<>>],
     [title |-> <<255>>, content |-> <<"Note content">>, category |-> <<>>],
     [title |-> <<256>>, content |-> <<"Note content">>, category |-> <<>>]}
    \cup {[title |-> <<255>>, content |-> <<"Note content">>,
           category |-> <<k>>] : k \in CategoryRefs}
    \cup {[title |-> <<>>, content |-> <<>>, category |-> <<k>>] :
            k \in {NULL} \cup CategoryRefs}

\* The ?category= query parameter of the note endpoints.
QueryParams == Opt(CategoryIds)

(***************************************************************************)
(* notes/models.py                                                          *)
(***************************************************************************)
CategoryNameMaxLength == 100
CategoryColorMaxLength == 7
NoteTitleMaxLength == 255
NoteTitleDefault == 0
NoteContentDefault == ""

\* Category.Meta.unique_together
unique_together == {"name", "user"}

\* The database's UNIQUE (name, user_id) constraint on the category table.
UniqueConstraintHolds(rows) ==
    \A c, d \in rows :
        (\A f \in unique_together : c[f] = d[f]) => c.id = d.id

\* ordering = ['-created_at']: first() gives the newest row.
CategoryFirstNewest(qs) ==
    CHOOSE c \in qs : \A d \in qs : c.created_at >= d.created_at

\* Category.Meta.ordering = ['created_at'], as used by QuerySet.first().
CategoryFirst(qs) ==
    CHOOSE c \in qs : \A d \in qs : c.created_at <= d.created_at

\* on_delete=CASCADE where SET_NULL is declared: the notes go with the
\* category.
SetNullCategoryAsCascade(rows, gone) ==
    {n \in rows : ~\E c \in gone : c.id = n.category}

\* Note.category: on_delete=SET_NULL, for the deleted category rows `gone`.
SetNullCategory(rows, gone) ==
    {IF \E c \in gone : c.id = n.category
        THEN [n EXCEPT !.category = NULL] ELSE n : n \in rows}

\* Category.delete(): the row goes, the notes that referenced it are kept
\* with a NULL reference.
CategoryDeleteRows(cats, rows, gone) ==
    [categories |-> cats \ gone, notes |-> SetNullCategory(rows, gone)]

\* Category.user and Note.user: on_delete=CASCADE, for the deleted account.
UserDeleteRows(cats, rows, u) ==
    LET goneCats == {c \in cats : c.user = u}
        keptNotes == {n \in rows : n.user # u}
    IN  CategoryDeleteRows(cats, keptNotes, goneCats)

(***************************************************************************)
(* notes/signals.py                                                         *)
(***************************************************************************)
DEFAULT_CATEGORIES ==
    << [name |-> "Random Thoughts", color |-> HEX_EF9C66],
       [name |-> "School",          color |-> HEX_FCDC94],
       [name |-> "Personal",        color |-> HEX_C8CFA0] >>

\* A receiver that does not look at `created`.
create_default_categories_on_every_save(instance, created) ==
    {[id         |-> nextCategoryId + (i - 1),
      name       |-> DEFAULT_CATEGORIES[i].name,
      color      |-> DEFAULT_CATEGORIES[i].color,
      user       |-> instance,
      created_at |-> now + i] : i \in 1..Len(DEFAULT_CATEGORIES)}

\* The rows the post_save receiver inserts: one Category.objects.create per
\* entry, each with the next primary key and the next reading of the clock.
create_default_categories(instance, created) ==
    IF created
    THEN {[id         |-> nextCategoryId + (i - 1),
           name       |-> DEFAULT_CATEGORIES[i].name,
           color      |-> DEFAULT_CATEGORIES[i].color,
           user       |-> instance,
           created_at |-> now + i] : i \in 1..Len(DEFAULT_CATEGORIES)}
    ELSE {}

(***************************************************************************)
(* notes/serializers.py                                                     *)
(***************************************************************************)
\* A count of the owner's notes, whatever their category.
get_notes_count_of_owner(obj) ==
    Cardinality({n \in notes : n.user = obj.user})

\* CategorySerializer.get_notes_count: obj.notes.count()
get_notes_count(obj) == Cardinality({n \in notes : n.category = obj.id})

\* CategorySerializer.Meta.fields without the read-only ones.
CategorySerializerWritableFields == {"name", "color"}

\* ModelSerializer derives a unique-together validator only when every
\* field of the constraint is a field of the serializer.
CategorySerializerUniqueTogetherValidators ==
    IF unique_together \subseteq CategorySerializerWritableFields
    THEN {unique_together} ELSE {}

\* CategorySerializer(obj).data
CategorySerializerData(obj) ==
    [id |-> obj.id, name |-> obj.name, color |-> obj.color,
     notes_count |-> get_notes_count(obj)]

\* CategorySerializer(data=..., partial=...).is_valid(): the names of the
\* fields in error. All names of the input set are within max_length=100.
CategorySerializerErrors(data, partial) ==
    {f \in {"name"} : ~partial /\ data.name = <<>>}
    \cup {f \in {"color"} : ~partial /\ data.color = <<>>}
    \cup {f \in {"color"} : data.color # <<>>
                            /\ Len(data.color[1]) > CategoryColorMaxLength}
    \cup {f \in {"non_field_errors"} :
            \E v \in CategorySerializerUniqueTogetherValidators :
                /\ \A g \in v : data[g] # <<>>
                /\ \E c \in categories : \A h \in v : c[h] = data[h][1]}

\* NoteSerializer(note).data: category_name / category_color are read
\* through note.category and are left out when the reference is NULL.
NoteSerializerData(note, cats) ==
    LET cs == {c \in cats : c.id = note.category}
    IN  [id |-> note.id, title |-> note.title, content |-> note.content,
         category |-> note.category,
         category_name  |-> IF cs = {} THEN <<>>
                            ELSE <<(CHOOSE c \in cs : TRUE).name>>,
         category_color |-> IF cs = {} THEN <<>>
                            ELSE <<(CHOOSE c \in cs : TRUE).color>>,
         created_at |-> note.created_at, updated_at |-> note.updated_at]

\* An is_valid() for a title column without max_length: only the category
\* is validated.
NoteCreateSerializerErrorsNoTitleLimit(data) ==
    {f \in {"category"} : data.category # <<>>
                          /\ data.category[1] # NULL
                          /\ ~\E c \in categories : c.id = data.category[1]}

\* NoteCreateSerializer(data=...).is_valid(): the names of the fields in
\* error. No field is required: title and content have defaults, category
\* is nullable. category is a primary key looked up in Category.objects.all().
NoteCreateSerializerErrors(data) ==
    {f \in {"title"} : data.title # <<>>
                       /\ data.title[1] > NoteTitleMaxLength}
    \cup {f \in {"category"} : data.category # <<>>
                               /\ data.category[1] # NULL
                               /\ ~\E c \in categories : c.id = data.category[1]}

(***************************************************************************)
(* notes/views.py                                                           *)
(***************************************************************************)
\* permission_classes = (IsAuthenticated,)
IsAuthenticated(u) == u \in users

\* A get_queryset that leaves out filter(user=self.request.user).
CategoryQuerysetUnscoped(u) == categories

\* CategoryViewSet.get_queryset
CategoryQueryset(u) == {c \in categories : c.user = u}

\* A get_queryset that leaves out filter(user=self.request.user).
NoteQuerysetUnscoped(u, category_id) ==
    IF category_id # <<>>
    THEN {n \in notes : n.category = category_id[1]}
    ELSE notes

\* A get_queryset whose category filter starts again from Note.objects
\* instead of narrowing the caller's notes.
NoteQuerysetFilterReplacesOwner(u, category_id) ==
    IF category_id # <<>>
    THEN {n \in notes : n.category = category_id[1]}
    ELSE {n \in notes : n.user = u}

\* NoteViewSet.get_queryset; category_id is the ?category= query parameter.
NoteQueryset(u, category_id) ==
    LET queryset == {n \in notes : n.user = u}
    IN  IF category_id # <<>>
        THEN {n \in queryset : n.category = category_id[1]}
        ELSE queryset

\* An HTTP response: the status, the rows of the body, the fields of an
\* error body.
Response(status, data, errors) ==
    [status |-> status, data |-> data, errors |-> errors]

\* Rows saved through the endpoints so far: every save reads the clock
\* once, and every account creation reads it once per default category.
Saves == now - Len(DEFAULT_CATEGORIES) * (nextUserId - 1)

Init ==
    /\ users = {}
    /\ categories = {}
    /\ notes = {}
    /\ now = 0
    /\ nextUserId = 1
    /\ nextCategoryId = 1
    /\ nextNoteId = 1

(***************************************************************************)
(* Accounts: User.objects.create_user, user.save(), user.delete()           *)
(***************************************************************************)
\* User.objects.create_user(...): the account row is saved and post_save
\* runs the receiver with created=True.
CreateAccount ==
    /\ nextUserId <= MaxAccounts
    /\ LET new == create_default_categories(nextUserId, TRUE)
       IN  /\ users' = users \cup {nextUserId}
           /\ categories' = categories \cup new
           /\ nextCategoryId' = nextCategoryId + Cardinality(new)
           /\ now' = now + Cardinality(new)
    /\ nextUserId' = nextUserId + 1
    /\ UNCHANGED <<notes, nextNoteId>>

\* user.save() of an existing account: post_save runs the receiver with
\* created=False.
SaveAccount(u) ==
    /\ u \in users
    /\ LET new == create_default_categories(u, FALSE)
       IN  /\ categories' = categories \cup new
           /\ nextCategoryId' = nextCategoryId + Cardinality(new)
           /\ now' = now + Cardinality(new)
    /\ UNCHANGED <<users, notes, nextUserId, nextNoteId>>

\* user.delete(): the cascade declared by the foreign keys.
DeleteAccount(u) ==
    /\ u \in users
    /\ LET after == UserDeleteRows(categories, notes, u)
       IN  /\ categories' = after.categories
           /\ notes' = after.notes
    /\ users' = users \ {u}
    /\ UNCHANGED <<now, nextUserId, nextCategoryId, nextNoteId>>

(***************************************************************************)
(* CategoryViewSet (a ModelViewSet): list, create, update, destroy          *)
(***************************************************************************)
\* GET /api/categories/
CategoryListResponse(u) ==
    IF ~IsAuthenticated(u) THEN Response(401, {}, {})
    ELSE Response(200,
                  {CategorySerializerData(c) : c \in CategoryQueryset(u)}, {})

CategoryList(u) == UNCHANGED vars

\* A perform_create that lets a "user" key of the body set the owner.
CategoryPerformCreateOwnerFromBody(u, data) ==
    [id         |-> nextCategoryId,
     name       |-> data.name[1],
     color      |-> data.color[1],
     user       |-> IF data.user # <<>> THEN data.user[1] ELSE u,
     created_at |-> now + 1]

\* CategoryViewSet.perform_create: serializer.save(user=self.request.user).
\* The row is built from the validated fields; the keyword argument sets
\* the owner.
CategoryPerformCreate(u, data) ==
    [id         |-> nextCategoryId,
     name       |-> data.name[1],
     color      |-> data.color[1],
     user       |-> u,
     created_at |-> now + 1]

\* POST /api/categories/
CategoryCreateResponse(u, data) ==
    IF ~IsAuthenticated(u) THEN Response(401, {}, {})
    ELSE IF CategorySerializerErrors(data, FALSE) # {}
    THEN Response(400, {}, CategorySerializerErrors(data, FALSE))
    ELSE LET row == CategoryPerformCreate(u, data)
         IN  IF ~UniqueConstraintHolds(categories \cup {row})
             THEN \* IntegrityError: no handler catches it
                  Response(500, {}, {})
             ELSE Response(201, {CategorySerializerData(row)}, {})

CategoryCreate(u, data) ==
    IF CategoryCreateResponse(u, data).status # 201 THEN UNCHANGED vars
    ELSE /\ Saves < MaxSaves
         /\ categories' = categories \cup {CategoryPerformCreate(u, data)}
         /\ nextCategoryId' = nextCategoryId + 1
         /\ now' = now + 1
         /\ UNCHANGED <<users, notes, nextUserId, nextNoteId>>

\* CategoryViewSet.get_object: the row of the caller's queryset with this
\* primary key, if any.
CategoryGetObject(u, pk) == {c \in CategoryQueryset(u) : c.id = pk}

\* ModelSerializer.update: every validated field is assigned.
CategoryPerformUpdate(instance, data) ==
    [instance EXCEPT
        !.name  = IF data.name  # <<>> THEN data.name[1]  ELSE @,
        !.color = IF data.color # <<>> THEN data.color[1] ELSE @]

\* The category table after the update of one row.
CategoryUpdatedRows(u, pk, data) ==
    {IF c \in CategoryGetObject(u, pk)
        THEN CategoryPerformUpdate(c, data) ELSE c : c \in categories}

\* PUT (partial = FALSE) and PATCH (partial = TRUE) /api/categories/{pk}/
CategoryUpdateResponse(u, pk, data, partial) ==
    IF ~IsAuthenticated(u) THEN Response(401, {}, {})
    ELSE IF CategoryGetObject(u, pk) = {} THEN Response(404, {}, {})
    ELSE IF CategorySerializerErrors(data, partial) # {}
    THEN Response(400, {}, CategorySerializerErrors(data, partial))
    ELSE IF ~UniqueConstraintHolds(CategoryUpdatedRows(u, pk, data))
    THEN \* IntegrityError: no handler catches it
         Response(500, {}, {})
    ELSE Response(200,
                  {CategorySerializerData(CategoryPerformUpdate(c, data)) :
                      c \in CategoryGetObject(u, pk)}, {})

CategoryUpdate(u, pk, data, partial) ==
    IF CategoryUpdateResponse(u, pk, data, partial).status # 200
    THEN UNCHANGED vars
    ELSE /\ Saves < MaxSaves
         /\ categories' = CategoryUpdatedRows(u, pk, data)
         /\ now' = now + 1
         /\ UNCHANGED <<users, notes, nextUserId, nextCategoryId, nextNoteId>>

\* DELETE /api/categories/{pk}/
CategoryDeleteResponse(u, pk) ==
    IF ~IsAuthenticated(u) THEN Response(401, {}, {})
    ELSE IF CategoryGetObject(u, pk) = {} THEN Response(404, {}, {})
    ELSE Response(204, {}, {})

CategoryDelete(u, pk) ==
    IF CategoryDeleteResponse(u, pk).status # 204 THEN UNCHANGED vars
    ELSE LET after == CategoryDeleteRows(categories, notes,
                                         CategoryGetObject(u, pk))
         IN  /\ categories' = after.categories
             /\ notes' = after.notes
             /\ UNCHANGED <<users, now, nextUserId, nextCategoryId,
                            nextNoteId>>

(***************************************************************************)
(* NoteViewSet (a ModelViewSet): list, create, update, destroy              *)
(***************************************************************************)
\* GET /api/notes/ and GET /api/notes/?category={id}
NoteListResponse(u, category_id) ==
    IF ~IsAuthenticated(u) THEN Response(401, {}, {})
    ELSE Response(200, {NoteSerializerData(n, categories) :
                           n \in NoteQueryset(u, category_id)}, {})

NoteList(u, category_id) == UNCHANGED vars

\* A perform_create that passes no category to save(): the category of the
\* body, when there is one, is stored.
NotePerformCreateKeepsBodyCategory(u, data) ==
    LET qs == CategoryQueryset(u)
        default_category == IF qs = {} THEN NULL ELSE CategoryFirst(qs).id
    IN  [id         |-> nextNoteId,
         title      |-> IF data.title # <<>> THEN data.title[1]
                        ELSE NoteTitleDefault,
         content    |-> IF data.content # <<>> THEN data.content[1]
                        ELSE NoteContentDefault,
         category   |-> IF data.category # <<>> THEN data.category[1]
                        ELSE default_category,
         user       |-> u,
         created_at |-> now + 1,
         updated_at |-> now + 1]

\* NoteViewSet.perform_create: the caller's first category is looked up and
\* serializer.save(user=..., category=default_category) puts both over the
\* validated fields.
NotePerformCreate(u, data) ==
    LET qs == CategoryQueryset(u)
        default_category == IF qs = {} THEN NULL ELSE CategoryFirst(qs).id
    IN  [id         |-> nextNoteId,
         title      |-> IF data.title # <<>> THEN data.title[1]
                        ELSE NoteTitleDefault,
         content    |-> IF data.content # <<>> THEN data.content[1]
                        ELSE NoteContentDefault,
         category   |-> default_category,
         user       |-> u,
         created_at |-> now + 1,
         updated_at |-> now + 1]

\* POST /api/notes/ (NoteViewSet.create)
NoteCreateResponse(u, data) ==
    IF ~IsAuthenticated(u) THEN Response(401, {}, {})
    ELSE IF NoteCreateSerializerErrors(data) # {}
    THEN Response(400, {}, NoteCreateSerializerErrors(data))
    ELSE Response(201, {NoteSerializerData(NotePerformCreate(u, data),
                                           categories)}, {})

NoteCreate(u, data) ==
    IF NoteCreateResponse(u, data).status # 201 THEN UNCHANGED vars
    ELSE /\ Saves < MaxSaves
         /\ notes' = notes \cup {NotePerformCreate(u, data)}
         /\ nextNoteId' = nextNoteId + 1
         /\ now' = now + 1
         /\ UNCHANGED <<users, categories, nextUserId, nextCategoryId>>

\* NoteViewSet.get_object: the row of the caller's (filtered) queryset with
\* this primary key, if any.
NoteGetObject(u, pk, category_id) ==
    {n \in NoteQueryset(u, category_id) : n.id = pk}

\* An update that assigns every field of the serializer: a field the body
\* leaves out gets the column's default.
NotePerformUpdateResetsAbsent(instance, data) ==
    [instance EXCEPT
        !.title    = IF data.title    # <<>> THEN data.title[1]
                     ELSE NoteTitleDefault,
        !.content  = IF data.content  # <<>> THEN data.content[1]
                     ELSE NoteContentDefault,
        !.category = IF data.category # <<>> THEN data.category[1] ELSE NULL,
        !.updated_at = now + 1]

\* ModelSerializer.update through NoteCreateSerializer: every validated
\* field is assigned, and save() refreshes updated_at (auto_now).
NotePerformUpdate(instance, data) ==
    [instance EXCEPT
        !.title    = IF data.title    # <<>> THEN data.title[1]    ELSE @,
        !.content  = IF data.content  # <<>> THEN data.content[1]  ELSE @,
        !.category = IF data.category # <<>> THEN data.category[1] ELSE @,
        !.updated_at = now + 1]

\* PUT (partial = FALSE) and PATCH (partial = TRUE) /api/notes/{pk}/
\* (NoteViewSet.update). No field of NoteCreateSerializer is required, so
\* `partial` changes nothing in the validation.
NoteUpdateResponse(u, pk, data, partial, category_id) ==
    IF ~IsAuthenticated(u) THEN Response(401, {}, {})
    ELSE IF NoteGetObject(u, pk, category_id) = {} THEN Response(404, {}, {})
    ELSE IF NoteCreateSerializerErrors(data) # {}
    THEN Response(400, {}, NoteCreateSerializerErrors(data))
    ELSE Response(200,
                  {NoteSerializerData(NotePerformUpdate(n, data), categories) :
                      n \in NoteGetObject(u, pk, category_id)}, {})

NoteUpdate(u, pk, data, partial, category_id) ==
    IF NoteUpdateResponse(u, pk, data, partial, category_id).status # 200
    THEN UNCHANGED vars
    ELSE /\ Saves < MaxSaves
         /\ notes' = {IF n \in NoteGetObject(u, pk, category_id)
                         THEN NotePerformUpdate(n, data) ELSE n : n \in notes}
         /\ now' = now + 1
         /\ UNCHANGED <<users, categories, nextUserId, nextCategoryId,
                        nextNoteId>>

\* DELETE /api/notes/{pk}/
NoteDeleteResponse(u, pk, category_id) ==
    IF ~IsAuthenticated(u) THEN Response(401, {}, {})
    ELSE IF NoteGetObject(u, pk, category_id) = {} THEN Response(404, {}, {})
    ELSE Response(204, {}, {})

NoteDelete(u, pk, category_id) ==
    IF NoteDeleteResponse(u, pk, category_id).status # 204
    THEN UNCHANGED vars
    ELSE /\ notes' = notes \ NoteGetObject(u, pk, category_id)
         /\ UNCHANGED <<users, categories, now, nextUserId, nextCategoryId,
                        nextNoteId>>

Next ==
    \/ CreateAccount
    \/ \E u \in Accounts : SaveAccount(u)
    \/ \E u \in Accounts : DeleteAccount(u)
    \/ \E u \in Accounts : CategoryList(u)
    \/ \E u \in Accounts, data \in CategoryPayloads : CategoryCreate(u, data)
    \/ \E u \in Accounts, pk \in CategoryIds, data \in CategoryPayloads,
          partial \in BOOLEAN : CategoryUpdate(u, pk, data, partial)
    \/ \E u \in Accounts, pk \in CategoryIds : CategoryDelete(u, pk)
    \/ \E u \in Accounts, q \in QueryParams : NoteList(u, q)
    \/ \E u \in Accounts, data \in NotePayloads : NoteCreate(u, data)
    \/ \E u \in Accounts, pk \in NoteIds, data \in NotePayloads,
          partial \in BOOLEAN, q \in QueryParams :
            NoteUpdate(u, pk, data, partial, q)
    \/ \E u \in Accounts, pk \in NoteIds, q \in QueryParams :
            NoteDelete(u, pk, q)

Spec == Init /\ [][Next]_vars
(***************************************************************************)
(* Properties                                                               *)
(***************************************************************************)
OwnedCategories(u) == {c \in categories : c.user = u}
OwnedNotes(u) == {n \in notes : n.user = u}

\* C1 (responses): in every reachable state, an update (PUT or PATCH) or a
\* delete of a category or note by an authenticated account that does not
\* own the row is answered 404, whatever the body and the query string.
C1_ForeignIs404 ==
    \A u \in users :
        /\ \A c \in categories : c.user # u =>
              /\ CategoryDeleteResponse(u, c.id).status = 404
              /\ \A data \in CategoryPayloads, partial \in BOOLEAN :
                    CategoryUpdateResponse(u, c.id, data, partial).status = 404
        /\ \A n \in notes : n.user # u =>
              \A q \in QueryParams :
                 /\ NoteDeleteResponse(u, n.id, q).status = 404
                 /\ \A data \in NotePayloads, partial \in BOOLEAN :
                       NoteUpdateResponse(u, n.id, data, partial, q).status
                           = 404

\* C1 (rows): a step that is such a request leaves the target row in its
\* table with every field as it was.
C1_ForeignRowKept ==
    (categories' # categories \/ notes' # notes) =>
    \A u \in users :
        /\ \A c \in categories :
              (/\ c.user # u
               /\ \/ CategoryDelete(u, c.id)
                  \/ \E data \in CategoryPayloads, partial \in BOOLEAN :
                        CategoryUpdate(u, c.id, data, partial))
              => c \in categories'
        /\ \A n \in notes :
              (/\ n.user # u
               /\ \E q \in QueryParams :
                     \/ NoteDelete(u, n.id, q)
                     \/ \E data \in NotePayloads, partial \in BOOLEAN :
                           NoteUpdate(u, n.id, data, partial, q))
              => n \in notes'

\* C1: every update or delete request of an authenticated non-owner on a
\* category or a note returns 404, and the row stays, unchanged, after any
\* sequence of operations by any accounts.
C1_NonOwnerWriteIs404AndRowUnchanged ==
    []C1_ForeignIs404 /\ [][C1_ForeignRowKept]_vars

\* An account faces a note and a category of another account, and its
\* delete and update requests on them are answered 404.
C1_Witness ==
    \E u \in users, n \in notes, c \in categories :
        /\ n.user # u /\ c.user # u
        /\ NoteDeleteResponse(u, n.id, <<>>).status = 404
        /\ CategoryDeleteResponse(u, c.id).status = 404
        /\ \E data \in NotePayloads :
              /\ data.title = <<255>>
              /\ NoteUpdateResponse(u, n.id, data, TRUE, <<>>).status = 404

\* C2: in every reachable state the category list an authenticated caller
\* gets holds exactly the categories the caller owns, and the note list
\* without a filter holds exactly the notes the caller owns, each row with
\* the stored fields; no row of another account appears.
C2_ListsHoldExactlyOwnRows ==
    \A u \in users :
        LET cl == CategoryListResponse(u)
            nl == NoteListResponse(u, <<>>)
        IN  /\ cl.status = 200 /\ nl.status = 200
            /\ \A r \in cl.data :
                  \E c \in categories :
                     /\ c.id = r.id /\ c.user = u
                     /\ c.name = r.name /\ c.color = r.color
            /\ \A c \in categories :
                  c.user = u => \E r \in cl.data : r.id = c.id
            /\ \A r \in nl.data :
                  \E n \in notes :
                     /\ n.id = r.id /\ n.user = u
                     /\ n.title = r.title /\ n.content = r.content
                     /\ n.category = r.category
            /\ \A n \in notes :
                  n.user = u => \E r \in nl.data : r.id = n.id

\* Two accounts each own categories and a note, and one of them lists.
C2_Witness ==
    \E u \in users, v \in users :
        /\ u # v
        /\ OwnedCategories(v) # {} /\ OwnedNotes(v) # {}
        /\ CategoryListResponse(u).data # {}
        /\ NoteListResponse(u, <<>>).data # {}

DefaultNames == {DEFAULT_CATEGORIES[i].name : i \in 1..Len(DEFAULT_CATEGORIES)}

\* C3 (creation): the step that creates an account leaves it with exactly
\* three categories, named "Random Thoughts", "School" and "Personal", each
\* with a colour that begins with "#".
C3_CreatedWithDefaults ==
    \A u \in Accounts :
        (u \notin users /\ u \in users') =>
            LET own == {c \in categories' : c.user = u}
            IN  /\ Cardinality(own) = 3
                /\ {c.name : c \in own}
                     = {"Random Thoughts", "School", "Personal"}
                /\ \A c \in own : Len(c.color) > 0 /\ c.color[1] = "#"

\* C3 (later saves): saving an account that exists creates no category.
C3_SaveCreatesNothing ==
    \A u \in users : SaveAccount(u) => categories' = categories

\* C3: right after its creation an account owns exactly the three default
\* categories, with colours beginning with "#", and a later save of the
\* account creates no category and leaves its category count unchanged.
C3_DefaultCategoriesOnCreationOnly ==
    [][C3_CreatedWithDefaults /\ C3_SaveCreatesNothing]_vars

\* The second account has just been created: it owns its three default
\* categories and nothing has been saved since.
C3_Witness ==
    /\ users = {1, 2}
    /\ now = 2 * Len(DEFAULT_CATEGORIES)
    /\ {c.name : c \in OwnedCategories(2)} = DefaultNames
    /\ Cardinality(OwnedCategories(2)) = 3
\* C4: a step that deletes a category keeps every note that referenced it,
\* with a null category reference and the same owner, title and content
\* (and every other field), and leaves the notes that referenced another
\* category, or none, as they were.
C4_CategoryDeleteNullsReferences ==
    [][ categories' # categories =>
        \A u \in users, c \in categories :
            (/\ c.user = u
             /\ CategoryDeleteResponse(u, c.id).status = 204
             /\ CategoryDelete(u, c.id))
            => /\ \A n \in notes :
                     IF n.category = c.id
                     THEN [n EXCEPT !.category = NULL] \in notes'
                     ELSE n \in notes'
               /\ Cardinality(notes') = Cardinality(notes)
               /\ categories' = categories \ {c} ]_vars

\* A note that was never updated has a null reference although its owner
\* still has a category older than the note: the category the note was
\* created in has been deleted. Another note still has its category.
C4_Witness ==
    \E n \in notes, m \in notes :
        /\ n.category = NULL /\ n.updated_at = n.created_at
        /\ \E c \in categories :
              c.user = n.user /\ c.created_at < n.created_at
        /\ m.category # NULL

\* The categories of u that no other category of u precedes in creation
\* time.
EarliestOwned(u) ==
    {c \in OwnedCategories(u) :
        \A d \in OwnedCategories(u) : c.created_at <= d.created_at}

EmptyNotePayload == [title |-> <<>>, content |-> <<>>, category |-> <<>>]

\* C6 as stated: every note a step creates has a non-null category
\* reference.
C6_CreatedNoteHasCategory ==
    [][ \A n \in notes' :
            (\A m \in notes : m.id # n.id) => n.category # NULL ]_vars

\* C6 as amended: in every reachable state the empty body is accepted (201),
\* and the note in a 201 response carries the caller's first existing
\* category in creation-time order, with its name and colour, when the
\* caller owns a category, and a null reference when the caller owns none.
C6_CreateDefaultsToFirstCategoryIfAny ==
    \A u \in users :
        /\ NoteCreateResponse(u, EmptyNotePayload).status = 201
        /\ \A data \in NotePayloads :
              LET r == NoteCreateResponse(u, data)
              IN  r.status = 201 =>
                    /\ Cardinality(r.data) = 1
                    /\ \A row \in r.data :
                          IF EarliestOwned(u) = {}
                          THEN /\ row.category = NULL
                               /\ row.category_name = <<>>
                          ELSE \E c \in EarliestOwned(u) :
                                  /\ row.category = c.id
                                  /\ row.category # NULL
                                  /\ row.category_name = <<c.name>>
                                  /\ row.category_color = <<c.color>>

\* One account has created a note with the empty body and still owns its
\* three categories; another account owns no category any more, and the
\* endpoint accepts its empty body too.
C6_Witness ==
    \E u \in users, v \in users :
        /\ Cardinality(OwnedCategories(u)) = 3
        /\ \E n \in OwnedNotes(u) :
              /\ n.updated_at = n.created_at /\ n.title = NoteTitleDefault
              /\ \E c \in EarliestOwned(u) : n.category = c.id
        /\ OwnedCategories(v) = {}
        /\ NoteCreateResponse(v, EmptyNotePayload).status = 201
\* C7 as stated: no two categories share a (name, owner) pair; a create
\* whose name is the name of a category of the caller is answered 400 with
\* an error body; a well-formed create whose name only categories of other
\* accounts have is answered 201.
C7_CollidingCreateIs400 ==
    /\ \A c \in categories, d \in categories :
          (c.name = d.name /\ c.user = d.user) => c = d
    /\ \A u \in users, data \in CategoryPayloads :
          LET r == CategoryCreateResponse(u, data)
              mine == data.name # <<>>
                      /\ \E c \in OwnedCategories(u) : c.name = data.name[1]
          IN  /\ mine => r.status = 400 /\ r.errors # {}
              /\ (~mine /\ CategorySerializerErrors(data, FALSE) = {})
                    => r.status = 201

\* C8: a step that creates a category through the endpoint adds exactly one
\* row, owned by the caller whatever "user" key the body carries; the
\* caller's categories grow by that row and the categories of every other
\* account are the same rows as before.
C8_CreateSetsOwnerToCaller ==
    [][ nextCategoryId' = nextCategoryId + 1 =>
        \A u \in users, data \in CategoryPayloads :
            CategoryCreate(u, data) =>
                /\ \E c \in categories' :
                      /\ c \notin categories /\ c.id = nextCategoryId
                      /\ c.user = u
                      /\ categories' = categories \cup {c}
                /\ Cardinality({c \in categories' : c.user = u})
                      = Cardinality(OwnedCategories(u)) + 1
                /\ \A v \in users \ {u} :
                      {c \in categories' : c.user = v} = OwnedCategories(v) ]_vars

\* An account owns a category beyond its defaults while another account
\* still has exactly its three, and the endpoint takes from the first a body
\* whose "user" key names the second.
C8_Witness ==
    \E u \in users : \E v \in users \ {u} :
        /\ \E c \in OwnedCategories(u) : c.name = "Work"
        /\ Cardinality(OwnedCategories(u)) = 4
        /\ {c.name : c \in OwnedCategories(v)} = DefaultNames
        /\ \E data \in CategoryPayloads :
              data.user = <<v>> /\ data.name = <<"Work">>

\* C9 as stated: a step that deletes an account removes every category and
\* note of the account, leaves no row that references it, and leaves the
\* categories and notes of the other accounts as they were.
C9_AccountDeleteTouchesOnlyOwnRows ==
    [][ \A u \in users :
            (u \notin users' /\ DeleteAccount(u)) =>
                /\ \A c \in categories' : c.user # u
                /\ \A n \in notes' : n.user # u
                /\ categories' = {c \in categories : c.user # u}
                /\ notes' = {n \in notes : n.user # u} ]_vars

\* The notes_count the list endpoint reports to the owner for the category
\* with this id.
ReportedCount(id) ==
    LET owner == (CHOOSE c \in categories : c.id = id).user
        row == CHOOSE r \in CategoryListResponse(owner).data : r.id = id
    IN  row.notes_count

\* Notes that reference the category `id` in `after` and did not in
\* `before`.
Attached(id, before, after) ==
    {n.id : n \in {m \in after : m.category = id}}
        \ {n.id : n \in {m \in before : m.category = id}}

\* C10: in every state the notes_count reported for a category is the
\* number of notes that reference it; over every step, for a category
\* that exists before and after, the reported count changes by the number
\* of notes newly attached to it less the number of notes that referenced
\* it and were deleted or moved away.
C10_CountIsCurrent ==
    \A u \in users : \A r \in CategoryListResponse(u).data :
        r.notes_count = Cardinality({n \in notes : n.category = r.id})

C10_CountFollowsSteps ==
    notes' # notes =>
    \A c \in categories :
        (\E d \in categories' : d.id = c.id) =>
            ReportedCount(c.id)' - ReportedCount(c.id)
                = Cardinality(Attached(c.id, notes, notes'))
                  - Cardinality(Attached(c.id, notes', notes))

C10_NotesCountIsReferenceCount ==
    []C10_CountIsCurrent /\ [][C10_CountFollowsSteps]_vars

\* A category is reported with one note, a note of another account that
\* was moved to it, while the category that account created the note in is
\* reported with none.
C10_Witness ==
    \E u \in users :
        \E r \in CategoryListResponse(u).data :
            /\ r.notes_count = 1
            /\ \E n \in notes :
                  /\ n.category = r.id /\ n.user # u
                  /\ n.updated_at > n.created_at
                  /\ \E q \in CategoryListResponse(n.user).data :
                        /\ q.notes_count = 0
                        /\ \E c \in EarliestOwned(n.user) : c.id = q.id

\* C11: in every state, for every account and every category id given as
\* ?category=, the note list is answered 200 with one row for each note
\* that the caller owns and that references this id, and no other row:
\* the rows are among those of the caller's unfiltered list, whoever owns
\* the category and whatever other accounts' notes reference it.
C11_FilteredListIsOwnNotesOfCategory ==
    \A u \in users, q \in QueryParams :
        q # <<>> =>
            LET r == NoteListResponse(u, q)
                expected == {n \in OwnedNotes(u) : n.category = q[1]}
            IN  /\ r.status = 200
                /\ r.data = {NoteSerializerData(n, categories) : n \in expected}
                /\ {row.id : row \in r.data} = {n.id : n \in expected}
                /\ Cardinality(r.data) = Cardinality(expected)
                /\ r.data \subseteq NoteListResponse(u, <<>>).data

\* An account has moved its note to the oldest category of another
\* account: the list filtered by that category gives the first account its
\* note and gives the owner of the category nothing, and the list filtered
\* by the first account's oldest category leaves the note out.
C11_Witness ==
    \E n \in notes, v \in users :
        /\ n.user # v /\ n.category # NULL
        /\ \E c \in EarliestOwned(v) : c.id = n.category
        /\ <<n.category>> \in QueryParams
        /\ {row.id : row \in NoteListResponse(n.user, <<n.category>>).data}
              = {n.id}
        /\ NoteListResponse(v, <<n.category>>).data = {}
        /\ \E c \in EarliestOwned(n.user) :
              /\ <<c.id>> \in QueryParams
              /\ NoteListResponse(n.user, <<c.id>>).data = {}

\* C12: in every state a note create whose title is longer than 255
\* characters is answered 400 with "title" among the fields in error, and
\* one whose title is exactly 255 characters and whose body is otherwise
\* valid is answered 201; over every step, a create with a title longer
\* than 255 leaves the notes as they were, and a note that a step adds has
\* a title of at most 255 characters.
C12_LongTitleIs400 ==
    \A u \in users, data \in NotePayloads :
        LET r == NoteCreateResponse(u, data)
        IN  /\ (data.title # <<>> /\ data.title[1] > 255)
                  => r.status = 400 /\ "title" \in r.errors /\ r.data = {}
            /\ (/\ data.title = <<255>>
                /\ data.category # <<>> /\ data.category[1] # NULL
                      => \E c \in categories : c.id = data.category[1])
                  => /\ r.status = 201
                     /\ \A row \in r.data : row.title = 255

C12_LongTitleCreatesNothing ==
    (notes' # notes \/ nextNoteId' # nextNoteId) =>
    /\ \A u \in users, data \in NotePayloads :
          (data.title # <<>> /\ data.title[1] > 255 /\ NoteCreate(u, data))
              => notes' = notes /\ nextNoteId' = nextNoteId
    /\ \A n \in notes' :
          (\A m \in notes : m.id # n.id) => n.title <= 255

C12_TitleOver255IsRejected ==
    []C12_LongTitleIs400 /\ [][C12_LongTitleCreatesNothing]_vars

\* A note was created with a title of exactly 255 characters, and the
\* endpoint refuses its owner a title of 256 characters.
C12_Witness ==
    \E n \in notes :
        /\ n.title = 255 /\ n.updated_at = n.created_at
        /\ \E data \in NotePayloads :
              /\ data.title = <<256>>
              /\ NoteCreateResponse(n.user, data).status = 400
              /\ NoteCreateResponse(n.user, data).errors = {"title"}

\* C13 as stated: in every state, every note whose category reference is
\* not null references a category of the account that owns the note, so the
\* name and colour in the note's read-back row and the note counted in a
\* category's notes_count are never another account's.
C13_NotesReferenceOwnCategories ==
    \A n \in notes :
        n.category # NULL =>
            \E c \in categories : c.id = n.category /\ c.user = n.user

====
